---- MODULE Spec2Model ----
(***************************************************************************)
(* Model of intrinsic_dim.ipynb: the MST persistence scorer                *)
(* (compute_persistent_score), the subsampler (sample_and_score), the      *)
(* single-run estimator (estimate_dimension) and the multi-run aggregator  *)
(* (estimate_sequence_dimension).                                          *)
(*                                                                         *)
(* Numbers.  Points have integer coordinates and the inputs are restricted *)
(* to point sets whose pairwise Euclidean distances are integers, so the   *)
(* distance matrix and the MST sums are exact.  Floating-point results are *)
(* records [kind, num, den]: kind = "num" is the rational num/den in       *)
(* lowest terms with den > 0, kind = "inf" is +infinity (num = 1) or       *)
(* -infinity (num = -1), kind = "nan" is NaN.  The natural logarithm is    *)
(* modelled on powers of two, in units of ln 2; a least-squares slope is a *)
(* ratio of differences of logarithms and does not depend on the unit.     *)
(***************************************************************************)
EXTENDS Integers, Sequences, FiniteSets, TLC

VARIABLES
    \* ---- sample_and_score ----
    embeddings,     \* the N x D matrix, a sequence of points
    n, k, hat_n, J, \* the arguments of sample_and_score
    rng,            \* the state of the global generator behind np.random
    pc,             \* position of the running call
    sizes, scores,  \* the two lists the call builds
    si,             \* position of "for size in sizes" (1-based)
    subset_scores,  \* the scores of the draws of the current size
    drawLog,        \* history: one record per np.random.choice call
    scoreCalls,     \* history: number of compute_persistent_score calls
    calls, prev,    \* number of the running call, result of the one before
    emb0,           \* history: the matrix as passed to the first call
    \* ---- compute_persistent_score ----
    points, score,
    \* ---- estimate_dimension ----
    e_sizes, e_scores, e_out,
    \* ---- estimate_sequence_dimension ----
    runs,           \* the runs argument
    run_scores,     \* the scores sample_and_score returned to the last run
    slopes,         \* the list of fitted slopes
    transforms,     \* history: evaluations of 1 / (1 - x)
    a_out

vars == <<embeddings, n, k, hat_n, J, rng, pc, sizes, scores, si,
          subset_scores, drawLog, scoreCalls, calls, prev, emb0,
          points, score, e_sizes, e_scores, e_out,
          runs, run_scores, slopes, transforms, a_out>>

subsamplerVars == <<embeddings, n, k, hat_n, J, rng, sizes, scores, si,
                    subset_scores, drawLog, scoreCalls, calls, prev, emb0>>
scorerVars     == <<points, score>>
estimatorVars  == <<e_sizes, e_scores, e_out>>
aggregatorVars == <<runs, run_scores, slopes, transforms, a_out>>

(***************************************************************************)
(* Bounds of the model.                                                    *)
(***************************************************************************)
MaxN      == 6   \* rows of the embedding matrix: 1..MaxN
MaxK      == 3   \* k ranges over 0..MaxK
MaxHat    == 4   \* hat_n ranges over 1..MaxHat
MaxJ      == 3   \* J ranges over 0..MaxJ
RngStates == 3   \* states of the modelled generator
MaxM      == 3   \* points handed to the scorer: 1..MaxM
MaxCoord  == 3   \* coordinates of those points: 0..MaxCoord
MaxExp    == 3   \* sizes and scores of the estimator: up to 2^MaxExp
MaxPts    == 3   \* length of the estimator's sizes/scores lists
MaxRuns   == 2   \* runs of the aggregator: 0..MaxRuns

(***************************************************************************)
(* Floating-point values.                                                  *)
(***************************************************************************)
Abs(x) == IF x < 0 THEN -x ELSE x

RECURSIVE Gcd(_, _)
Gcd(a, b) == IF b = 0 THEN a ELSE Gcd(b, a % b)

NaN    == [kind |-> "nan", num |-> 0, den |-> 1]
PosInf == [kind |-> "inf", num |-> 1, den |-> 1]
NegInf == [kind |-> "inf", num |-> -1, den |-> 1]

\* the rational a/b (b # 0) in lowest terms
Rat(a, b) ==
    LET g == Gcd(Abs(a), Abs(b))
        s == IF b < 0 THEN -1 ELSE 1
    IN  [kind |-> "num", num |-> (s * a) \div g, den |-> (s * b) \div g]

Num(a) == Rat(a, 1)

IsFinite(v) == v.kind = "num"

AllFinite(vs) == \A i \in 1..Len(vs) : IsFinite(vs[i])

\* sum, product and quotient of finite values
RatAdd(a, b) == Rat(a.num * b.den + b.num * a.den, a.den * b.den)
RatMul(a, b) == Rat(a.num * b.num, a.den * b.den)
RatLess(a, b) == a.num * b.den < b.num * a.den

RECURSIVE RatSum(_)
RatSum(vs) == IF vs = <<>> THEN Num(0) ELSE RatAdd(Head(vs), RatSum(Tail(vs)))

(***************************************************************************)
(* compute_persistent_score: distance matrix, MST, sum of the tree.       *)
(***************************************************************************)
\* the integer square root of a perfect square
ISqrt(x) == CHOOSE r \in 0..x : r * r = x

IsSquare(x) == \E r \in 0..x : r * r = x

SqDist(p, q) == (p[1] - q[1]) * (p[1] - q[1]) + (p[2] - q[2]) * (p[2] - q[2])

\* the point sets the model can score exactly
ExactPoints(pts) ==
    \A i, j \in 1..Len(pts) : IsSquare(SqDist(pts[i], pts[j]))

\* scipy.spatial.distance_matrix(x, y): the Euclidean distance of every pair
distance_matrix(x, y) ==
    [i \in 1..Len(x) |-> [j \in 1..Len(y) |-> ISqrt(SqDist(x[i], y[j]))]]

\* The edges scipy's csgraph takes from a dense matrix: an entry that is 0
\* is no edge (csgraph_from_dense, null_value 0).
StoredEdges(dm) ==
    {e \in (1..Len(dm)) \X (1..Len(dm)) : e[1] < e[2] /\ dm[e[1]][e[2]] # 0}

\* Kruskal over a set of edges: total weight of the spanning forest.  comp
\* maps a vertex to its component.  Ties may be broken either way: the total
\* does not depend on it.
RECURSIVE Kruskal(_, _, _)
Kruskal(dm, todo, comp) ==
    IF todo = {} THEN 0
    ELSE LET e == CHOOSE e \in todo :
                      \A f \in todo : dm[e[1]][e[2]] <= dm[f[1]][f[2]]
             rest == todo \ {e}
         IN  IF comp[e[1]] = comp[e[2]]
             THEN Kruskal(dm, rest, comp)
             ELSE dm[e[1]][e[2]]
                  + Kruskal(dm, rest,
                            [v \in DOMAIN comp |->
                                IF comp[v] = comp[e[2]] THEN comp[e[1]]
                                ELSE comp[v]])

\* scipy.sparse.csgraph.minimum_spanning_tree(dist_matrix) followed by .sum()
minimum_spanning_tree_sum(dm) ==
    Kruskal(dm, StoredEdges(dm), [v \in 1..Len(dm) |-> v])

compute_persistent_score(emb) ==
    LET dist_matrix == distance_matrix(emb, emb)
    IN  minimum_spanning_tree_sum(dist_matrix)

\* ---- reference: the minimum spanning tree of the complete graph ----
CompleteEdges(M) == {e \in (1..M) \X (1..M) : e[1] < e[2]}

RECURSIVE Reach(_, _)
Reach(T, S) ==
    LET S2 == S \cup {v \in UNION {{e[1], e[2]} : e \in T} :
                        \E e \in T : (e[1] \in S /\ e[2] = v)
                                   \/ (e[2] \in S /\ e[1] = v)}
    IN  IF S2 = S THEN S ELSE Reach(T, S2)

\* the spanning trees of the complete graph on 1..M: M-1 edges joining all
SpanningTrees(M) ==
    {T \in SUBSET CompleteEdges(M) :
        Cardinality(T) = M - 1 /\ Reach(T, {1}) = 1..M}

RECURSIVE EdgeSum(_, _)
EdgeSum(dm, T) ==
    IF T = {} THEN 0
    ELSE LET e == CHOOSE e \in T : TRUE
         IN  dm[e[1]][e[2]] + EdgeSum(dm, T \ {e})

\* the weight of a minimum spanning tree of the complete Euclidean graph
MSTWeight(pts) ==
    LET dm == distance_matrix(pts, pts)
        ws == {EdgeSum(dm, T) : T \in SpanningTrees(Len(pts))}
    IN  CHOOSE w \in ws : \A u \in ws : w <= u

(***************************************************************************)
(* sample_and_score.                                                       *)
(***************************************************************************)
\* Python's // : the quotient rounded towards minus infinity (b > 0)
FloorDiv(a, b) == a \div b

\* mutant: the comprehension running over i instead of i - 1
SizesOffByOne(N, K, HatN) ==
    [i \in 1..K |-> FloorDiv(i * (N - HatN), K) + HatN]

\* mutant: % written for //
SizesMod(N, K, HatN) ==
    [i \in 1..K |-> (((i - 1) * (N - HatN)) % K) + HatN]

\* sizes = [(i - 1) * (n - hat_n) // k + hat_n for i in range(1, k + 1)]
Sizes(N, K, HatN) ==
    [i \in 1..K |-> FloorDiv((i - 1) * (N - HatN), K) + HatN]

RemoveAt(s, p) == SubSeq(s, 1, p - 1) \o SubSeq(s, p + 1, Len(s))

\* cnt indices taken from pool, each taken index leaving the pool
RECURSIVE Pick(_, _, _)
Pick(pool, g, cnt) ==
    IF cnt = 0 THEN <<>>
    ELSE LET p == (g % Len(pool)) + 1
         IN  <<pool[p]>> \o Pick(RemoveAt(pool, p), g \div Len(pool) + p, cnt - 1)

\* mutant: replace=True, a taken index stays in the pool
RECURSIVE PickReplace(_, _, _)
PickReplace(pool, g, cnt) ==
    IF cnt = 0 THEN <<>>
    ELSE LET p == (g % Len(pool)) + 1
         IN  <<pool[p]>> \o PickReplace(pool, g \div Len(pool) + p, cnt - 1)

ChoiceWithReplacement(g, N, size) == PickReplace([i \in 1..N |-> i - 1], g, size)

\* np.random.choice(n, size, replace=False) in generator state g: size indices
\* of range(n), a function of the generator's state alone
Choice(g, N, size) == Pick([i \in 1..N |-> i - 1], g, size)

\* np.random.choice raises ValueError for a sample larger than the population
\* (replace=False) and for a negative size
ChoiceRaises(N, size) == size > N \/ size < 0

\* the generator's state after one draw
NextRng(g) == (g + 1) % RngStates

\* embeddings[idx]: the rows at the drawn indices (0-based), in draw order
Rows(emb, idx) == [i \in 1..Len(idx) |-> emb[idx[i] + 1]]

\* mutant: the middle of the list as drawn, without sorting it
MedianUnsorted(xs) ==
    LET m == Len(xs)
    IN  IF m = 0 THEN NaN
        ELSE IF m % 2 = 1 THEN Num(xs[(m + 1) \div 2])
        ELSE Rat(xs[m \div 2] + xs[m \div 2 + 1], 2)

\* np.median: the middle of the sorted list, the mean of the two middle ones
\* for an even length, NaN for an empty list
Median(xs) ==
    LET s == SortSeq(xs, LAMBDA a, b : a < b)
        m == Len(xs)
    IN  IF m = 0 THEN NaN
        ELSE IF m % 2 = 1 THEN Num(s[(m + 1) \div 2])
        ELSE Rat(s[m \div 2] + s[m \div 2 + 1], 2)

\* the matrices the model passes: N points on a line at unit spacing, or N
\* points cycling over the corners of a 3 x 4 rectangle (repeats from the 5th)
LineEmb(N) == [i \in 1..N |-> <<i - 1, 0>>]
RectEmb(N) == [i \in 1..N |-> <<3 * ((i - 1) % 2), 4 * (((i - 1) \div 2) % 2)>>]

ScorerIdle     == points = <<>> /\ score = 0
EstimatorIdle  == e_sizes = <<>> /\ e_scores = <<>> /\ e_out = NaN
AggregatorIdle == runs = 0 /\ run_scores = <<>> /\ slopes = <<>> /\ transforms = 0
                  /\ a_out = NaN
SubsamplerIdle ==
    /\ embeddings = <<>> /\ emb0 = <<>>
    /\ n = 0 /\ k = 0 /\ hat_n = 0 /\ J = 0 /\ rng = 0
    /\ sizes = <<>> /\ scores = <<>> /\ si = 0 /\ subset_scores = <<>>
    /\ drawLog = <<>> /\ scoreCalls = 0 /\ calls = 0 /\ prev = <<>>

InitSubsampler ==
    /\ n \in 1..MaxN
    /\ embeddings \in {LineEmb(n), RectEmb(n)}
    /\ emb0 = embeddings
    /\ k \in 0..MaxK
    /\ hat_n \in 1..MaxHat
    /\ J \in 0..MaxJ
    /\ rng \in 0..(RngStates - 1)
    /\ pc = "entry"
    /\ sizes = <<>> /\ scores = <<>> /\ si = 0 /\ subset_scores = <<>>
    /\ drawLog = <<>> /\ scoreCalls = 0
    /\ calls = 1 /\ prev = <<>>
    /\ ScorerIdle /\ EstimatorIdle /\ AggregatorIdle

\* lines 107-108: scores = [], sizes = [...]
Enter ==
    /\ pc = "entry"
    /\ scores' = <<>>
    /\ sizes' = Sizes(n, k, hat_n)
    /\ si' = 1
    /\ subset_scores' = <<>>
    /\ pc' = "loop"
    /\ UNCHANGED <<embeddings, n, k, hat_n, J, rng, drawLog, scoreCalls,
                   calls, prev, emb0>>
    /\ UNCHANGED <<scorerVars, estimatorVars, aggregatorVars>>

\* line 111, one element of the comprehension: a draw and its score
Draw ==
    /\ pc = "loop"
    /\ si <= Len(sizes)
    /\ Len(subset_scores) < J
    /\ ~ChoiceRaises(n, sizes[si])
    /\ LET idx == Choice(rng, n, sizes[si])
           sc  == compute_persistent_score(Rows(embeddings, idx))
       IN  /\ subset_scores' = Append(subset_scores, sc)
           /\ drawLog' = Append(drawLog, [at |-> si, size |-> sizes[si],
                                          idx |-> idx, score |-> sc])
    /\ scoreCalls' = scoreCalls + 1
    /\ rng' = NextRng(rng)
    /\ UNCHANGED <<embeddings, n, k, hat_n, J, pc, sizes, scores, si,
                   calls, prev, emb0>>
    /\ UNCHANGED <<scorerVars, estimatorVars, aggregatorVars>>

\* line 111: np.random.choice raises, the call ends with the exception
DrawRaises ==
    /\ pc = "loop"
    /\ si <= Len(sizes)
    /\ Len(subset_scores) < J
    /\ ChoiceRaises(n, sizes[si])
    /\ pc' = "raised"
    /\ UNCHANGED subsamplerVars
    /\ UNCHANGED <<scorerVars, estimatorVars, aggregatorVars>>

\* line 113: scores.append(np.median(subset_scores))
Reduce ==
    /\ pc = "loop"
    /\ si <= Len(sizes)
    /\ Len(subset_scores) >= J
    /\ scores' = Append(scores, Median(subset_scores))
    /\ subset_scores' = <<>>
    /\ si' = si + 1
    /\ UNCHANGED <<embeddings, n, k, hat_n, J, rng, pc, sizes, drawLog,
                   scoreCalls, calls, prev, emb0>>
    /\ UNCHANGED <<scorerVars, estimatorVars, aggregatorVars>>

\* line 115: return sizes, scores
Return ==
    /\ pc = "loop"
    /\ si > Len(sizes)
    /\ pc' = "returned"
    /\ UNCHANGED subsamplerVars
    /\ UNCHANGED <<scorerVars, estimatorVars, aggregatorVars>>

\* The caller calls again with the same embeddings and the same arguments
\* (line 92: the signature has no seed or generator among them); the global
\* generator is where the first call left it.
CallAgain ==
    /\ pc = "returned"
    /\ calls = 1
    /\ calls' = 2
    /\ prev' = <<sizes, scores>>
    /\ pc' = "entry"
    /\ sizes' = <<>> /\ scores' = <<>> /\ si' = 0 /\ subset_scores' = <<>>
    /\ drawLog' = <<>> /\ scoreCalls' = 0
    /\ UNCHANGED <<embeddings, n, k, hat_n, J, rng, emb0>>
    /\ UNCHANGED <<scorerVars, estimatorVars, aggregatorVars>>

NextSubsampler ==
    \/ Enter
    \/ Draw
    \/ DrawRaises
    \/ Reduce
    \/ Return
    \/ CallAgain

SpecSubsampler == InitSubsampler /\ [][NextSubsampler]_vars

(***************************************************************************)
(* compute_persistent_score as a unit.                                     *)
(***************************************************************************)
Coords == 0..MaxCoord

PointSeqs ==
    UNION {[1..m -> Coords \X Coords] : m \in 1..MaxM}

InitScorer ==
    /\ points \in {p \in PointSeqs : ExactPoints(p)}
    /\ score = 0
    /\ pc = "score_entry"
    /\ SubsamplerIdle /\ EstimatorIdle /\ AggregatorIdle

\* lines 81-83
ScoreCall ==
    /\ pc = "score_entry"
    /\ score' = compute_persistent_score(points)
    /\ pc' = "score_done"
    /\ UNCHANGED <<points, subsamplerVars, estimatorVars, aggregatorVars>>

NextScorer == ScoreCall

SpecScorer == InitScorer /\ [][NextScorer]_vars

(***************************************************************************)
(* estimate_dimension and estimate_sequence_dimension.                     *)
(***************************************************************************)
RECURSIVE Pow2(_)
Pow2(e) == IF e = 0 THEN 1 ELSE 2 * Pow2(e - 1)

RECURSIVE Log2(_)
Log2(x) == IF x <= 1 THEN 0 ELSE 1 + Log2(x \div 2)

\* np.log of one number, in units of ln 2: exact on the powers of two,
\* -inf at 0 and NaN below 0 (numpy warns and goes on)
Log(x) ==
    IF x > 0 THEN Num(Log2(x))
    ELSE IF x = 0 THEN NegInf
    ELSE NaN

\* np.log of a list
LogAll(xs) == [i \in 1..Len(xs) |-> Log(xs[i])]

\* mutant: the fit never validates its input
FitAcceptsAnything(X, y) == FALSE

\* LinearRegression().fit(X, y) validates X and y and raises ValueError when
\* either holds a NaN or an infinity
FitRaises(X, y) == ~AllFinite(X) \/ ~AllFinite(y)

\* reg.coef_[0]: the least-squares slope of y on X (with intercept); 0 when
\* all X are equal (the minimum-norm solution), NaN once a NaN or an
\* infinity enters the sums
Slope(X, y) ==
    IF ~AllFinite(X) \/ ~AllFinite(y) THEN NaN
    ELSE LET m   == Len(X)
             sx  == RatSum(X)
             sy  == RatSum(y)
             sxy == RatSum([i \in 1..m |-> RatMul(X[i], y[i])])
             sxx == RatSum([i \in 1..m |-> RatMul(X[i], X[i])])
             nm  == RatAdd(RatMul(Num(m), sxy), RatMul(Num(-1), RatMul(sx, sy)))
             dn  == RatAdd(RatMul(Num(m), sxx), RatMul(Num(-1), RatMul(sx, sx)))
         IN  IF dn.num = 0 THEN Num(0)
             ELSE Rat(nm.num * dn.den, nm.den * dn.num)

\* 1 / (1 - x) in floating point: +inf at x = 1 (numpy warns and goes on),
\* NaN for NaN
Transform(x) ==
    IF x.kind = "nan" THEN NaN
    ELSE IF x.kind = "inf" THEN Num(0)
    ELSE IF x.den - x.num = 0 THEN PosInf
    ELSE Rat(x.den, x.den - x.num)

\* np.mean of a list of finite values: NaN for the empty list
Mean(vs) ==
    IF vs = <<>> THEN NaN
    ELSE LET t == RatSum(vs) IN Rat(t.num, t.den * Len(vs))

\* mutant: transform every run's slope, then average the dimensions
MeanOfTransforms(sl) ==
    LET ds == [i \in 1..Len(sl) |-> Transform(sl[i])]
    IN  IF sl = <<>> THEN NaN
        ELSE IF ~AllFinite(ds) THEN PosInf
        ELSE Mean(ds)

\* lines 175-176: kappa_F = np.mean(slopes); 1 / (1 - kappa_F)
TransformOfMean(sl) ==
    LET kappa_F == Mean(sl) IN Transform(kappa_F)

\* the lists the model passes: sizes 2^1 .. 2^MaxExp in non-decreasing
\* order, scores 2^0 .. 2^MaxExp, 0 and -1
SizeSeqs(m) ==
    {s \in [1..m -> {Pow2(e) : e \in 1..MaxExp}] :
        \A i \in 1..(m - 1) : s[i] <= s[i + 1]}
ScoreSeqs(m) == [1..m -> {Pow2(e) : e \in 0..MaxExp} \cup {0, -1}]

InitEstimator ==
    /\ \E m \in 1..MaxPts :
          /\ e_sizes \in SizeSeqs(m)
          /\ e_scores \in ScoreSeqs(m)
    /\ e_out = NaN
    /\ pc = "est_entry"
    /\ SubsamplerIdle /\ ScorerIdle /\ AggregatorIdle

\* lines 135-141, the fit accepting its input
EstimateReturns ==
    /\ pc = "est_entry"
    /\ LET log_sizes  == LogAll(e_sizes)
           log_scores == LogAll(e_scores)
       IN  /\ ~FitRaises(log_sizes, log_scores)
           /\ e_out' = Transform(Slope(log_sizes, log_scores))
    /\ pc' = "est_returned"
    /\ UNCHANGED <<e_sizes, e_scores>>
    /\ UNCHANGED <<subsamplerVars, scorerVars, aggregatorVars>>

\* lines 135-138, the fit raising
EstimateRaises ==
    /\ pc = "est_entry"
    /\ FitRaises(LogAll(e_sizes), LogAll(e_scores))
    /\ pc' = "est_raised"
    /\ UNCHANGED estimatorVars
    /\ UNCHANGED <<subsamplerVars, scorerVars, aggregatorVars>>

\* The sizes sample_and_score returns to estimate_sequence_dimension are the
\* same in every run (line 108: a function of n alone); the model takes a
\* list whose logarithms it has exactly.  The scores are medians of MST sums:
\* 0 or positive.
AggSizes == <<2, 4, 8>>
AggScoreSeqs == [1..Len(AggSizes) -> {Pow2(e) : e \in 0..MaxExp} \cup {0}]

InitAggregator ==
    /\ runs \in 0..MaxRuns
    /\ run_scores = <<>>
    /\ slopes = <<>>
    /\ transforms = 0
    /\ a_out = NaN
    /\ pc = "agg_loop"
    /\ SubsamplerIdle /\ ScorerIdle /\ EstimatorIdle

\* lines 168-173, one run: sample_and_score, the logs, the fit, the append
RunFit ==
    /\ pc = "agg_loop"
    /\ Len(slopes) < runs
    /\ \E sc \in AggScoreSeqs :
          LET log_sizes  == LogAll(AggSizes)
              log_scores == LogAll(sc)
          IN  /\ ~FitRaises(log_sizes, log_scores)
              /\ run_scores' = sc
              /\ slopes' = Append(slopes, Slope(log_sizes, log_scores))
    /\ UNCHANGED <<runs, transforms, a_out, pc>>
    /\ UNCHANGED <<subsamplerVars, scorerVars, estimatorVars>>

\* lines 168-172, a run whose fit raises
RunFitRaises ==
    /\ pc = "agg_loop"
    /\ Len(slopes) < runs
    /\ \E sc \in AggScoreSeqs :
          /\ FitRaises(LogAll(AggSizes), LogAll(sc))
          /\ run_scores' = sc
    /\ pc' = "agg_raised"
    /\ UNCHANGED <<runs, slopes, transforms, a_out>>
    /\ UNCHANGED <<subsamplerVars, scorerVars, estimatorVars>>

\* lines 175-176
AggReturn ==
    /\ pc = "agg_loop"
    /\ Len(slopes) >= runs
    /\ a_out' = TransformOfMean(slopes)
    /\ transforms' = transforms + 1
    /\ pc' = "agg_returned"
    /\ UNCHANGED <<runs, run_scores, slopes>>
    /\ UNCHANGED <<subsamplerVars, scorerVars, estimatorVars>>

InitEstimation == InitEstimator \/ InitAggregator

NextEstimation ==
    \/ EstimateReturns
    \/ EstimateRaises
    \/ RunFit
    \/ RunFitRaises
    \/ AggReturn

SpecEstimation == InitEstimation /\ [][NextEstimation]_vars

(***************************************************************************)
(* Claims about sample_and_score (checked under SpecSubsampler).           *)
(***************************************************************************)
\* the inputs the subsampler's contract calls valid
ValidInput == 2 <= hat_n /\ hat_n <= n /\ k >= 1 /\ J >= 1

\* line 108 has run in the current call
SizesBuilt == pc \in {"loop", "returned", "raised"}

\* q is the floor of a / b (b > 0)
IsFloorOf(q, a, b) == q * b <= a /\ a < (q + 1) * b

\* C1: for every N, k >= 1 and hat_n the call builds exactly k sizes, the
\* i-th being floor((i-1) * (N - hat_n) / k) + hat_n; the first is hat_n, and
\* for N = 1022, k = 8, hat_n = 40 the first is 40 and the last 899.
C1_SizesFormula ==
    /\ (SizesBuilt /\ k >= 1) =>
          /\ Len(sizes) = k
          /\ \A i \in 1..k :
                IsFloorOf(sizes[i] - hat_n, (i - 1) * (n - hat_n), k)
          /\ sizes[1] = hat_n
    /\ Len(Sizes(1022, 8, 40)) = 8
    /\ Sizes(1022, 8, 40)[1] = 40
    /\ Sizes(1022, 8, 40)[8] = 899

\* a call has returned k >= 2 sizes whose last one needed rounding down
C1_Witness ==
    /\ pc = "returned" /\ k >= 2
    /\ ((k - 1) * (n - hat_n)) % k # 0
    /\ sizes[k] > hat_n

C3_InvalidInputRaises ==
    (n < hat_n \/ hat_n < 2 \/ k < 1 \/ J < 1) =>
        /\ pc # "returned"
        /\ drawLog = <<>>
        /\ scoreCalls = 0

\* C8: a second call with the same embeddings and parameters returns the
\* sizes and scores of the first.
C8_SameResultOnRepeat ==
    (calls = 2 /\ pc = "returned") => <<sizes, scores>> = prev

\* the indices of a draw are pairwise distinct
Distinct(idx) == \A i, j \in 1..Len(idx) : i # j => idx[i] # idx[j]

\* C9: for every valid input, every draw asks for at most N indices and gets
\* exactly that many pairwise distinct indices of [0, N); no draw fails.
C9_DrawsWithoutReplacement ==
    ValidInput =>
        /\ pc # "raised"
        /\ \A d \in 1..Len(drawLog) :
              /\ drawLog[d].size <= n
              /\ Len(drawLog[d].idx) = drawLog[d].size
              /\ Distinct(drawLog[d].idx)
              /\ \A i \in 1..Len(drawLog[d].idx) :
                    drawLog[d].idx[i] \in 0..(n - 1)

\* a valid call has drawn a subset of at least three rows
C9_Witness ==
    /\ ValidInput /\ pc = "returned"
    /\ \E d \in 1..Len(drawLog) : drawLog[d].size >= 3

\* the value at position p of the sorted list of the scores at size i
ScoresAt(i) == [j \in 1..J |-> drawLog[(i - 1) * J + j].score]
OrderStat(L, p) ==
    CHOOSE x \in {L[j] : j \in 1..Len(L)} :
        /\ Cardinality({j \in 1..Len(L) : L[j] < x}) < p
        /\ p <= Cardinality({j \in 1..Len(L) : L[j] <= x})

\* C10: for every valid input the call takes the sizes in order, makes
\* exactly J draws and J scorer calls per size (k*J in all) and returns sizes
\* and scores of length k, scores[i] being the median of the J scores at
\* sizes[i]; the embedding matrix is unchanged.
C10_MedianPerSize ==
    /\ (ValidInput /\ pc = "returned") =>
          /\ Len(sizes) = k /\ Len(scores) = k
          /\ Len(drawLog) = k * J /\ scoreCalls = k * J
          /\ \A i \in 1..k : \A j \in 1..J :
                /\ drawLog[(i - 1) * J + j].at = i
                /\ drawLog[(i - 1) * J + j].size = sizes[i]
          /\ \A i \in 1..k :
                scores[i] = Rat(OrderStat(ScoresAt(i), (J + 1) \div 2)
                                + OrderStat(ScoresAt(i), J \div 2 + 1), 2)
    /\ (ValidInput /\ pc = "loop") =>
          /\ scoreCalls = Len(drawLog)
          /\ Len(drawLog) = (si - 1) * J + Len(subset_scores)
          /\ Len(scores) = si - 1
    /\ embeddings = emb0

\* a valid call with k >= 2 and J >= 3 has returned, the three draws of one
\* size not all scoring the same
C10_Witness ==
    /\ ValidInput /\ pc = "returned" /\ k >= 2 /\ J >= 3
    /\ \E i \in 1..k : \E j \in 1..J : ScoresAt(i)[j] # ScoresAt(i)[1]

(***************************************************************************)
(* Claim about compute_persistent_score (checked under SpecScorer).        *)
(***************************************************************************)
\* C7: for M >= 2 points, distinct or not, the score is the total weight of
\* a minimum spanning tree of the complete Euclidean graph; M points on a
\* line at unit spacing score M - 1, and a single point scores 0.
C7_ScoreIsMSTWeight ==
    (pc = "score_done") =>
        /\ (Len(points) >= 2) => score = MSTWeight(points)
        /\ (points = LineEmb(Len(points))) => score = Len(points) - 1
        /\ (Len(points) = 1) => score = 0

(***************************************************************************)
(* Claims about the estimator and the aggregator (SpecEstimation).         *)
(***************************************************************************)
\* the mean of the per-run dimensions 1 / (1 - slope_r)
PerRunDimMean(sl) ==
    LET ds == [i \in 1..Len(sl) |-> Transform(sl[i])]
        t  == RatSum(ds)
    IN  Rat(t.num, t.den * Len(sl))

C5_DegenerateSlopeRaises ==
    /\ (pc = "est_returned") =>
          /\ RatLess(Slope(LogAll(e_sizes), LogAll(e_scores)), Num(1))
          /\ IsFinite(e_out) /\ e_out.num > 0
    /\ (pc = "agg_returned" /\ runs >= 1) =>
          /\ RatLess(Mean(slopes), Num(1))
          /\ IsFinite(a_out) /\ a_out.num > 0

\* C6: with a score that is zero or negative, estimate_dimension and the
\* per-run fit of estimate_sequence_dimension end with an error: neither
\* returns a value, and the failing run adds no slope.
C6_NonPositiveScoreRaises ==
    /\ (\E i \in 1..Len(e_scores) : e_scores[i] <= 0) =>
          pc \in {"est_entry", "est_raised"}
    /\ (\E i \in 1..Len(run_scores) : run_scores[i] <= 0) =>
          pc = "agg_raised"
    /\ AllFinite(slopes)

\* estimate_dimension has raised on two or more scores, one of them 0
C6_Witness ==
    /\ pc = "est_raised"
    /\ Len(e_scores) >= 2
    /\ \E i \in 1..Len(e_scores) : e_scores[i] = 0

====
